---- MODULE Spec2Model ----
(***************************************************************************)
(* A model of the ai-pid front end:                                        *)
(*   - src/static/pid_symbols.js : the symbol catalog (loadSymbols and its *)
(*     callers) and the fuzzy matcher (normalizeName, levenshteinDistance, *)
(*     calculateSimilarity, findBestSymbol);                               *)
(*   - src/static/graph_viewer.js: initGraphViewer and the position store. *)
(*                                                                         *)
(* A JavaScript string is a sequence of one-character strings, so that the *)
(* string functions are computed character by character as the code does.  *)
(* A value that may be null is a sequence of length at most one: <<>> is   *)
(* null and <<v>> is the value v.                                          *)
(***************************************************************************)
EXTENDS Integers, Sequences, FiniteSets, TLC

VARIABLES
    ALL_SYMBOLS,     \* pid_symbols.js:5, the raw entries of the last payload
    SYMBOL_NAMES,    \* pid_symbols.js:6, the names used for matching
    SYMBOLS_LOADED,  \* pid_symbols.js:7
    fetchCount,      \* number of fetch('/api/symbols') issued so far
    pc,              \* per call slot: where the async call is suspended
    entry,           \* per call slot: the function the caller invoked
    outcome,         \* per call slot: how its last loadSymbols run ended
    askedName,       \* the argument of the findBestSymbol call, if any
    answered,        \* whether that call has returned
    bestSymbol,      \* what it returned
    nodeStyle,       \* per catalog and id: what getNodeStyle resolves to
    store,           \* localStorage['graphNodePositions'], null when unset
    gpc,             \* where the initGraphViewer call is suspended
    argContainer,    \* its call: whether the container element exists
    argNodes,        \* its call: the nodes argument
    argEdges,        \* its call: the edges argument
    positionsMap,    \* graph_viewer.js:34, what the call read from the store
    returned,        \* how the last initGraphViewer call ended
    elements,        \* graph_viewer.js:31, the local `elements` of the call
    loopAt,          \* the entry of nodes whose getNodeStyle it awaits
    awaited,         \* what that getNodeStyle call resolves to
    nodeElements,    \* graph_viewer.js:31, the node part of `elements`
    edgeElements,    \* graph_viewer.js:31, the edge part of `elements`
    cyNodes,         \* the ids of cy.nodes(), in order
    cyPosition,      \* node.position() of each node of cy
    cyLayout,        \* the layout cy was constructed with, "none": no cy
    layoutPending,   \* the animated layout has not emitted layoutstop yet
    graphCount,      \* number of initGraphViewer calls so far
    normArg,         \* the argument of the first normalizeName call
    normResults,     \* what normalizeName returned, call after call
    levArg1,         \* the first argument of the levenshteinDistance call
    levArg2,         \* its second argument
    levResult,       \* what it returned, null before it has
    onGraphNodeClick,   \* window.onGraphNodeClick: what kind of value it is
    onGraphBlankClick,  \* window.onGraphBlankClick: what kind of value it is
    tapCount,        \* number of tap events dispatched so far
    tapTarget,       \* the target of the last tap event, null before any
    nodeClickCalls,  \* the arguments onGraphNodeClick was called with in it
    blankClickCalls, \* how many times onGraphBlankClick was called in it
    tapEscaped       \* whether an exception left a handler of that event

catalogVars == <<ALL_SYMBOLS, SYMBOL_NAMES, SYMBOLS_LOADED>>
callVars == <<fetchCount, pc, entry, outcome>>
matchVars == <<askedName, answered, bestSymbol>>
buildVars == <<gpc, argContainer, argNodes, argEdges, positionsMap, returned,
               elements, loopAt, awaited, graphCount>>
cyVars == <<nodeElements, edgeElements, cyNodes, cyPosition, cyLayout,
            layoutPending>>
tapVars == <<onGraphNodeClick, onGraphBlankClick, tapCount, tapTarget,
             nodeClickCalls, blankClickCalls, tapEscaped>>
graphVars == <<nodeStyle, store, buildVars, cyVars, tapVars>>
pureVars == <<normArg, normResults, levArg1, levArg2, levResult>>
symbolVars == <<catalogVars, callVars, matchVars, nodeStyle, pureVars>>
vars == <<ALL_SYMBOLS, SYMBOL_NAMES, SYMBOLS_LOADED, fetchCount, pc, entry,
          outcome, askedName, answered, bestSymbol, nodeStyle, store, gpc, argContainer,
          argNodes, argEdges, positionsMap, returned, elements, loopAt,
          awaited, nodeElements,
          edgeElements, cyNodes, cyPosition, cyLayout, layoutPending,
          graphCount, normArg, normResults, levArg1, levArg2, levResult,
          onGraphNodeClick, onGraphBlankClick, tapCount, tapTarget,
          nodeClickCalls, blankClickCalls, tapEscaped>>

None == <<>>
Some(v) == <<v>>

\* No call of normalizeName or levenshteinDistance on its own
NoPureCall ==
    /\ normArg = <<>>
    /\ normResults = <<>>
    /\ levArg1 = <<>>
    /\ levArg2 = <<>>
    /\ levResult = None

\* No tap event yet, and no handler defined on window
NoTap ==
    /\ onGraphNodeClick = "undefined"
    /\ onGraphBlankClick = "undefined"
    /\ tapCount = 0
    /\ tapTarget = None
    /\ nodeClickCalls = <<>>
    /\ blankClickCalls = 0
    /\ tapEscaped = FALSE

\* The page before any initGraphViewer call, with nothing stored
NoGraph ==
    /\ NoTap
    /\ nodeStyle = <<>>
    /\ store = None
    /\ gpc = "idle"
    /\ argContainer = FALSE
    /\ argNodes = <<>>
    /\ argEdges = <<>>
    /\ positionsMap = <<>>
    /\ returned = "none"
    /\ elements = <<>>
    /\ loopAt = 0
    /\ awaited = None
    /\ nodeElements = <<>>
    /\ edgeElements = <<>>
    /\ cyNodes = <<>>
    /\ cyPosition = <<>>
    /\ cyLayout = "none"
    /\ layoutPending = FALSE
    /\ graphCount = 0

----------------------------------------------------------------------------
(* Characters and strings                                                  *)

Lower == <<"a","b","c","d","e","f","g","h","i","j","k","l","m",
           "n","o","p","q","r","s","t","u","v","w","x","y","z">>
Upper == <<"A","B","C","D","E","F","G","H","I","J","K","L","M",
           "N","O","P","Q","R","S","T","U","V","W","X","Y","Z">>
Digit == <<"0","1","2","3","4","5","6","7","8","9">>

Range(s) == {s[i] : i \in DOMAIN s}

IsLower(c) == c \in Range(Lower)
IsUpper(c) == c \in Range(Upper)
IsDigit(c) == c \in Range(Digit)
\* \s of a JavaScript regular expression, for the characters the model uses
IsSpace(c) == c \in {" ", "\t", "\n"}

\* String.prototype.toLowerCase on one ASCII character
ToLowerChar(c) ==
    IF IsUpper(c) THEN Lower[CHOOSE i \in DOMAIN Upper : Upper[i] = c] ELSE c

ToLowerCase(s) == [i \in DOMAIN s |-> ToLowerChar(s[i])]

\* The concatenation of the sequences parts[lo..hi], by halving the range
\* (the evaluation depth stays logarithmic in the length).
RECURSIVE Flatten(_, _, _)
Flatten(parts, lo, hi) ==
    IF lo > hi THEN <<>>
    ELSE IF lo = hi THEN parts[lo]
    ELSE LET mid == (lo + hi) \div 2
         IN  Flatten(parts, lo, mid) \o Flatten(parts, mid + 1, hi)

Concat(parts) == Flatten(parts, 1, Len(parts))

----------------------------------------------------------------------------
(* The matcher: normalizeName, tokenize, levenshteinDistance                *)

SYNONYM_MAP ==
    << <<<<"b","a","l","l","_","v","a","l","v","e">>,
         <<"v","a","l","v","e">>>>,
       <<<<"g","a","t","e","_","v","a","l","v","e">>,
         <<"g","a","t","e","_","v","a","l","v","e">>>>,
       <<<<"g","l","o","b","e","_","v","a","l","v","e">>,
         <<"v","a","l","v","e">>>>,
       <<<<"c","h","e","c","k","_","v","a","l","v","e">>,
         <<"c","h","e","c","k","_","v","a","l","v","e">>>>,
       <<<<"c","o","n","t","r","o","l","_","v","a","l","v","e">>,
         <<"c","o","n","t","r","o","l","_","v","a","l","v","e">>>>,
       <<<<"p","r","e","s","s","u","r","e","_","g","a","u","g","e">>,
         <<"p","r","e","s","s","u","r","e","_","i","n","d","i","c","a","t","o","r">>>>,
       <<<<"p","r","e","s","s","u","r","e","_","i","n","d","i","c","a","t","o","r">>,
         <<"p","r","e","s","s","u","r","e","_","i","n","d","i","c","a","t","o","r">>>>,
       <<<<"t","e","m","p","e","r","a","t","u","r","e","_","i","n","d","i","c","a","t","o","r">>,
         <<"t","e","m","p","e","r","a","t","u","r","e","_","i","n","d","i","c","a","t","o","r">>>>,
       <<<<"t","e","m","p","e","r","a","t","u","r","e","_","c","o","n","t","r","o","l">>,
         <<"t","e","m","p","e","r","a","t","u","r","e","_","c","o","n","t","r","o","l">>>>,
       <<<<"f","l","o","w","_","i","n","d","i","c","a","t","o","r">>,
         <<"f","l","o","w","_","i","n","d","i","c","a","t","o","r">>>>,
       <<<<"f","l","o","w","_","c","o","n","t","r","o","l">>,
         <<"f","l","o","w","_","c","o","n","t","r","o","l">>>>,
       <<<<"l","e","v","e","l","_","i","n","d","i","c","a","t","o","r">>,
         <<"l","e","v","e","l","_","i","n","d","i","c","a","t","o","r">>>>,
       <<<<"l","e","v","e","l","_","c","o","n","t","r","o","l">>,
         <<"l","e","v","e","l","_","c","o","n","t","r","o","l">>>>,
       <<<<"h","e","a","t","_","e","x","c","h","a","n","g","e","r">>,
         <<"h","e","a","t","_","e","x","c","h","a","n","g","e","r">>>>,
       <<<<"c","o","n","d","e","n","s","e","r">>,
         <<"h","e","a","t","_","e","x","c","h","a","n","g","e","r">>>>,
       <<<<"r","e","b","o","i","l","e","r">>,
         <<"h","e","a","t","_","e","x","c","h","a","n","g","e","r">>>>,
       <<<<"e","v","a","p","o","r","a","t","o","r">>,
         <<"h","e","a","t","_","e","x","c","h","a","n","g","e","r">>>>,
       <<<<"c","o","m","p","r","e","s","s","o","r">>,
         <<"c","o","m","p","r","e","s","s","o","r">>>>,
       <<<<"b","l","o","w","e","r">>,
         <<"c","o","m","p","r","e","s","s","o","r">>>>,
       <<<<"p","u","m","p">>,
         <<"p","u","m","p">>>>,
       <<<<"m","e","t","e","r">>,
         <<"m","e","t","e","r">>>>,
       <<<<"s","e","n","s","o","r">>,
         <<"s","e","n","s","o","r">>>>,
       <<<<"r","e","a","c","t","o","r">>,
         <<"r","e","a","c","t","o","r">>>>,
       <<<<"v","e","s","s","e","l">>,
         <<"v","e","s","s","e","l">>>>,
       <<<<"d","r","u","m">>,
         <<"v","e","s","s","e","l">>>>,
       <<<<"c","o","l","u","m","n">>,
         <<"v","e","s","s","e","l">>>>,
       <<<<"k","n","o","c","k","o","u","t">>,
         <<"s","e","p","a","r","a","t","o","r">>>>,
       <<<<"s","e","p","a","r","a","t","o","r">>,
         <<"s","e","p","a","r","a","t","o","r">>>>,
       <<<<"t","a","n","k">>,
         <<"t","a","n","k">>>>,
       <<<<"f","i","l","t","e","r">>,
         <<"f","i","l","t","e","r">>>>,
       <<<<"s","t","r","a","i","n","e","r">>,
         <<"f","i","l","t","e","r">>>>,
       <<<<"c","o","n","t","r","o","l","l","e","r">>,
         <<"c","o","n","t","r","o","l","l","e","r">>>> >>

STOPWORDS ==
    { <<"t","h","e">>,
      <<"a">>,
      <<"a","n">>,
      <<"o","f">>,
      <<"a","n","d">>,
      <<"u","n","i","t">>,
      <<"s","y","s","t","e","m">>,
      <<"s","t","a","t","i","o","n">>,
      <<"m","a","i","n">>,
      <<"a","u","x">>,
      <<"s","p","a","r","e">>,
      <<"a","r","e","a">>,
      <<"s","e","c","t","i","o","n">>,
      <<"l","i","n","e">> }

\* SYNONYM_MAP[key]: null when key is no key of the map
SynonymOf(key) ==
    IF \E i \in DOMAIN SYNONYM_MAP : SYNONYM_MAP[i][1] = key
    THEN Some(SYNONYM_MAP[CHOOSE i \in DOMAIN SYNONYM_MAP : SYNONYM_MAP[i][1] = key][2])
    ELSE None

\* String.prototype.split for a one-character separator: the pieces between
\* the separators, the empty ones included.
Split(s, sep) ==
    LET at == Concat([i \in DOMAIN s |-> IF s[i] = sep THEN <<i>> ELSE <<>>])
        n == Len(at)
    IN  [k \in 1..(n + 1) |->
            SubSeq(s, IF k = 1 THEN 1 ELSE at[k - 1] + 1,
                      IF k = n + 1 THEN Len(s) ELSE at[k] - 1)]

\* Array.prototype.join for a one-character separator
Join(parts, sep) ==
    Concat([k \in DOMAIN parts |-> IF k = 1 THEN parts[k] ELSE <<sep>> \o parts[k]])

\* name.replace(/([a-z])([A-Z])/g, '$1 $2'): a match ends in an upper-case
\* letter, so no two matches overlap and every such pair gets its space.
CamelSpaced(name) ==
    Concat([i \in DOMAIN name |->
               IF i < Len(name) /\ IsLower(name[i]) /\ IsUpper(name[i + 1])
               THEN <<name[i], " ">> ELSE <<name[i]>>])

\* s.replace(/[^a-z0-9]+/g, ' '): each maximal run becomes one space
CleanNonAlnum(s) ==
    LET keep(c) == IsLower(c) \/ IsDigit(c)
    IN  Concat([i \in DOMAIN s |->
                   IF keep(s[i]) THEN <<s[i]>>
                   ELSE IF i = 1 \/ keep(s[i - 1]) THEN <<" ">>
                   ELSE <<>>])

\* normalizeName joining the tokens with no separator
normalizeName_NoSeparator(name) ==
    IF name = <<>> THEN <<>>
    ELSE LET spaced == CamelSpaced(name)
             cleaned == CleanNonAlnum(ToLowerCase(spaced))
             tokens == SelectSeq(Split(cleaned, " "),
                                 LAMBDA t : t # <<>> /\ t \notin STOPWORDS)
         IN  Concat(tokens)

normalizeName(name) ==
    IF name = <<>> THEN <<>>
    ELSE LET spaced == CamelSpaced(name)
             cleaned == CleanNonAlnum(ToLowerCase(spaced))
             tokens == SelectSeq(Split(cleaned, " "),
                                 LAMBDA t : t # <<>> /\ t \notin STOPWORDS)
         IN  Join(tokens, "_")

tokenize(sym) == SelectSeq(Split(sym, "_"), LAMBDA t : t # <<>>)

MAX_LEN == 1000

Max(a, b) == IF a >= b THEN a ELSE b
\* Math.min without the substitution term of line 85
Min3_NoSubstitution(a, b, c) == IF a <= b THEN a ELSE b

Min3(a, b, c) == IF a <= b /\ a <= c THEN a ELSE IF b <= c THEN b ELSE c

\* The inner loop, for i = lo..hi, of row j of the matrix: cur holds
\* matrix[j][0..lo-1] on entry (cur[i + 1] is matrix[j][i]) and prev is row
\* j - 1.  The range is halved so that long strings stay evaluable; the
\* test of Len(done) has the first half evaluated before the second starts.
RECURSIVE LevCells(_, _, _, _, _, _, _)
LevCells(str1, str2, prev, j, cur, lo, hi) ==
    IF lo > hi THEN cur
    ELSE IF lo = hi
    THEN LET indicator == IF str1[lo] = str2[j] THEN 0 ELSE 1
         IN  Append(cur, Min3(cur[lo] + 1, prev[lo + 1] + 1, prev[lo] + indicator))
    ELSE LET mid == (lo + hi) \div 2
             done == LevCells(str1, str2, prev, j, cur, lo, mid)
         IN  IF Len(done) = 0 THEN done
             ELSE LevCells(str1, str2, prev, j, done, mid + 1, hi)

\* The outer loop, for j = lo..hi: from row lo - 1 to row hi
RECURSIVE LevRows(_, _, _, _, _)
LevRows(str1, str2, prev, lo, hi) ==
    IF lo > hi THEN prev
    ELSE IF lo = hi THEN LevCells(str1, str2, prev, lo, <<lo>>, 1, Len(str1))
    ELSE LET mid == (lo + hi) \div 2
             done == LevRows(str1, str2, prev, lo, mid)
         IN  IF Len(done) = 0 THEN done
             ELSE LevRows(str1, str2, done, mid + 1, hi)

\* levenshteinDistance with the short circuit one character early
levenshteinDistance_CapOffByOne(str1, str2) ==
    IF Len(str1) >= MAX_LEN \/ Len(str2) >= MAX_LEN
    THEN Max(Len(str1), Len(str2))
    ELSE LET len1 == Len(str1)
             len2 == Len(str2)
             row0 == [i \in 1..(len1 + 1) |-> i - 1]
         IN  LevRows(str1, str2, row0, 1, len2)[len1 + 1]

levenshteinDistance(str1, str2) ==
    IF Len(str1) > MAX_LEN \/ Len(str2) > MAX_LEN
    THEN Max(Len(str1), Len(str2))
    ELSE LET len1 == Len(str1)
             len2 == Len(str2)
             row0 == [i \in 1..(len1 + 1) |-> i - 1]
         IN  LevRows(str1, str2, row0, 1, len2)[len1 + 1]

----------------------------------------------------------------------------
(* JavaScript numbers.  calculateSimilarity computes in IEEE-754 binary64, *)
(* rounding every operation to the nearest value of 53 significant bits,   *)
(* ties to even.  A number x >= 0 is held exactly as the natural number    *)
(* x * 2^(LimbBits * FracLimbs), written in base 2^LimbBits with the least *)
(* significant limb first.  Every number the matcher computes is 0 or at   *)
(* least 2^-12 (a label has at most 250 tokens, and the edit score is 0 or *)
(* at least 1/1000), so each is a multiple of 2^-70 and is held exactly.   *)

LimbBits == 14
FracLimbs == 5
NumLimbs == FracLimbs + 1
MantissaBits == 53
LimbBase == 2 ^ LimbBits

RECURSIVE AddLimbs(_, _, _, _)
AddLimbs(x, y, i, carry) ==
    IF i > Len(x) THEN <<>>
    ELSE LET t == x[i] + y[i] + carry
         IN  <<t % LimbBase>> \o AddLimbs(x, y, i + 1, t \div LimbBase)

\* x + y, for numbers of the same number of limbs
BigAdd(x, y) == AddLimbs(x, y, 1, 0)

RECURSIVE SubLimbs(_, _, _, _)
SubLimbs(x, y, i, borrow) ==
    IF i > Len(x) THEN <<>>
    ELSE LET t == x[i] - y[i] - borrow
         IN  IF t < 0 THEN <<t + LimbBase>> \o SubLimbs(x, y, i + 1, 1)
             ELSE <<t>> \o SubLimbs(x, y, i + 1, 0)

\* x - y, for x >= y
BigSub(x, y) == SubLimbs(x, y, 1, 0)

RECURSIVE ColumnSum(_, _, _, _)
ColumnSum(x, y, k, i) ==
    IF i > Len(x) THEN 0
    ELSE (IF k + 1 - i \in DOMAIN y THEN x[i] * y[k + 1 - i] ELSE 0)
         + ColumnSum(x, y, k, i + 1)

RECURSIVE MulLimbs(_, _, _, _)
MulLimbs(x, y, k, carry) ==
    IF k > Len(x) + Len(y) THEN <<>>
    ELSE LET t == ColumnSum(x, y, k, 1) + carry
         IN  <<t % LimbBase>> \o MulLimbs(x, y, k + 1, t \div LimbBase)

\* x * y, of Len(x) + Len(y) limbs
BigMul(x, y) == MulLimbs(x, y, 1, 0)

\* x >= y, for numbers of the same number of limbs
BigGE(x, y) ==
    \/ x = y
    \/ \E i \in DOMAIN x : x[i] > y[i] /\ \A j \in DOMAIN x : j > i => x[j] = y[j]

\* The number of significant bits of n
BitLength(n) ==
    IF \A i \in DOMAIN n : n[i] = 0 THEN 0
    ELSE LET top == CHOOSE i \in DOMAIN n :
                        n[i] # 0 /\ \A j \in DOMAIN n : j > i => n[j] = 0
         IN  LimbBits * (top - 1)
             + (CHOOSE b \in 1..LimbBits : 2 ^ (b - 1) <= n[top] /\ n[top] < 2 ^ b)

BitAt(n, k) == (n[(k \div LimbBits) + 1] \div (2 ^ (k % LimbBits))) % 2

\* Some bit of n below bit k is set
AnyBitBelow(n, k) ==
    \/ \E i \in 1..(k \div LimbBits) : n[i] # 0
    \/ n[(k \div LimbBits) + 1] % (2 ^ (k % LimbBits)) # 0

\* Round to nearest, ties to even, at 53 significant bits.  n is the exact
\* result truncated to its limbs, and sticky says that the exact result is
\* above n (by less than one unit of the last limb).
RoundNearestEven(n, sticky) ==
    LET s == BitLength(n) - MantissaBits
    IN  IF s <= 0 THEN n
        ELSE LET truncated ==
                     [i \in DOMAIN n |->
                         IF i <= s \div LimbBits THEN 0
                         ELSE IF i = (s \div LimbBits) + 1
                         THEN n[i] - (n[i] % (2 ^ (s % LimbBits)))
                         ELSE n[i]]
                 unit == [i \in DOMAIN n |->
                             IF i = (s \div LimbBits) + 1 THEN 2 ^ (s % LimbBits) ELSE 0]
                 roundUp == /\ BitAt(n, s - 1) = 1
                            /\ \/ sticky
                               \/ AnyBitBelow(n, s - 1)
                               \/ BitAt(n, s) = 1
             IN  IF roundUp THEN BigAdd(truncated, unit) ELSE truncated

\* The limbs, most significant first, of the fraction r / b and what is left
RECURSIVE DivLimbs(_, _, _)
DivLimbs(r, b, k) ==
    IF k = 0 THEN <<r>>
    ELSE <<(r * LimbBase) \div b>> \o DivLimbs((r * LimbBase) % b, b, k - 1)

Reverse(s) == [i \in DOMAIN s |-> s[Len(s) + 1 - i]]

\* a / b in binary64, for integers 0 <= a <= b < 2^17, b > 0; the value of
\* the decimal literal a/b too (0.65 is Quotient(13, 20))
Quotient(a, b) ==
    LET digits == DivLimbs(a % b, b, FracLimbs)
        n == Reverse(SubSeq(digits, 1, FracLimbs)) \o <<a \div b>>
    IN  RoundNearestEven(n, digits[FracLimbs + 1] # 0)

NumOne == Quotient(1, 1)
NumZero == Quotient(0, 1)

Plus(x, y) == RoundNearestEven(BigAdd(x, y), FALSE)
\* x - y, for x >= y
Minus(x, y) == RoundNearestEven(BigSub(x, y), FALSE)
Times(x, y) ==
    SubSeq(RoundNearestEven(BigMul(x, y), FALSE), FracLimbs + 1, FracLimbs + NumLimbs)

----------------------------------------------------------------------------
(* The matcher: calculateSimilarity and findBestSymbol                      *)

\* t1.filter(t => set2.has(t)).length
TokenHits(t1, t2) == Len(SelectSeq(t1, LAMBDA t : t \in Range(t2)))

calculateSimilarity(str1, str2) ==
    LET maxLen == Max(Len(str1), Len(str2))
        editScore == IF maxLen = 0 THEN NumOne
                     ELSE Minus(NumOne, Quotient(levenshteinDistance(str1, str2), maxLen))
        t1 == tokenize(str1)
        t2 == tokenize(str2)
        tokenHits == TokenHits(t1, t2)
        tokenScore == IF Len(t1) # 0 THEN Quotient(tokenHits, Len(t1)) ELSE NumZero
    IN  Plus(Times(Quotient(13, 20), tokenScore), Times(Quotient(7, 20), editScore))

\* The normalized name is matched only up to this length (pid_symbols.js:123)
MaxNormalizedLen == 500

\* The threshold 0.4 of pid_symbols.js:163
Threshold == Quotient(2, 5)

\* scores.sort((a, b) => b.score - a.score)[0]: the sort is stable, so the
\* first of the highest-scoring names comes first.  (A score is never NaN:
\* both divisions have a non-zero divisor.)
BestIndex(names, normalized) ==
    CHOOSE i \in DOMAIN names :
        LET si == calculateSimilarity(normalized, names[i])
        IN  \A j \in DOMAIN names :
                LET sj == calculateSimilarity(normalized, names[j])
                IN  /\ BigGE(si, sj)
                    /\ (j < i => sj # si)

\* The scored path of findBestSymbol (pid_symbols.js:139-166)
ScoredMatch(names, normalized) ==
    LET best == names[BestIndex(names, normalized)]
    IN  IF BigGE(calculateSimilarity(normalized, best), Threshold)
        THEN Some(best)
        ELSE None

\* findBestSymbol with the synonym lookup tried before the exact match
findBestSymbol_SynonymFirst(names, nodeName) ==
    IF Len(names) = 0 THEN None
    ELSE LET normalized == normalizeName(nodeName)
         IN  IF normalized = <<>> THEN None
             ELSE IF Len(normalized) > MaxNormalizedLen THEN None
             ELSE LET synonym == SynonymOf(normalized)
                  IN  IF synonym # None /\ synonym[1] \in Range(names) THEN synonym
                      ELSE IF normalized \in Range(names) THEN Some(normalized)
                      ELSE ScoredMatch(names, normalized)

\* findBestSymbol with the synonym lookup left out
findBestSymbol_NoSynonym(names, nodeName) ==
    IF Len(names) = 0 THEN None
    ELSE LET normalized == normalizeName(nodeName)
         IN  IF normalized = <<>> THEN None
             ELSE IF Len(normalized) > MaxNormalizedLen THEN None
             ELSE IF normalized \in Range(names) THEN Some(normalized)
             ELSE ScoredMatch(names, normalized)

\* findBestSymbol returning the synonym without looking it up in the catalog
findBestSymbol_SynonymUnchecked(names, nodeName) ==
    IF Len(names) = 0 THEN None
    ELSE LET normalized == normalizeName(nodeName)
         IN  IF normalized = <<>> THEN None
             ELSE IF Len(normalized) > MaxNormalizedLen THEN None
             ELSE IF normalized \in Range(names) THEN Some(normalized)
             ELSE LET synonym == SynonymOf(normalized)
                  IN  IF synonym # None THEN synonym
                      ELSE ScoredMatch(names, normalized)

\* findBestSymbol(nodeName) with SYMBOL_NAMES = names
findBestSymbol(names, nodeName) ==
    IF Len(names) = 0 THEN None
    ELSE LET normalized == normalizeName(nodeName)
         IN  IF normalized = <<>> THEN None
             ELSE IF Len(normalized) > MaxNormalizedLen THEN None
             ELSE IF normalized \in Range(names) THEN Some(normalized)
             ELSE LET synonym == SynonymOf(normalized)
                  IN  IF synonym # None /\ synonym[1] \in Range(names) THEN synonym
                      ELSE ScoredMatch(names, normalized)

----------------------------------------------------------------------------
(* The symbol catalog: loadSymbols and its callers                          *)

NumCallers == 2
MaxFetches == 3

Callers == 1..NumCallers

EntryOps == {"loadSymbols", "ensureSymbolsLoaded", "getNodeStyle", "getAvailableSymbols"}

\* One entry of data.symbols.  kind "string": the JSON string `name`;
\* "object": an object whose name property is the string `name` ("" stands
\* for a missing or empty name); "number": a JSON number; "null": JSON null.
StrEntry(s) == [kind |-> "string", name |-> s]
ObjEntry(s) == [kind |-> "object", name |-> s]
NumEntry == [kind |-> "number", name |-> <<>>]
NullEntry == [kind |-> "null", name |-> <<>>]

\* sym.name.toLowerCase().replace(/\s+/g, '_')   (pid_symbols.js:195)
ToSnakeCase(name) ==
    LET low == ToLowerCase(name)
        piece(i) == IF ~IsSpace(low[i]) THEN <<low[i]>>
                    ELSE IF i = 1 \/ ~IsSpace(low[i - 1]) THEN <<"_">>
                    ELSE <<>>
    IN  Concat([i \in DOMAIN low |-> piece(i)])

\* The callback of data.symbols.map (pid_symbols.js:190-198): <<>> is null.
\* Undefined for a null entry, whose property read throws (see MapThrows).
ExtractName(sym) ==
    IF sym.kind = "string" THEN Some(sym.name)
    ELSE IF sym.kind = "object" /\ sym.name # <<>> THEN Some(ToSnakeCase(sym.name))
    ELSE None

\* sym.name on null throws a TypeError
MapThrows(symbols) == \E i \in DOMAIN symbols : symbols[i].kind = "null"

\* .map(...).filter(Boolean): null and the empty string are dropped
ExtractNames(symbols) ==
    Concat([i \in DOMAIN symbols |->
               LET n == ExtractName(symbols[i])
               IN  IF n = None \/ n[1] = <<>> THEN <<>> ELSE n])

\* What `await response.json()` can produce.  kind "reject": the body is
\* not JSON; "null": JSON null; "object": an object with the given success
\* flag and, when hasSymbols, the array symbols.
JsonReject == [kind |-> "reject", success |-> FALSE, hasSymbols |-> FALSE, symbols |-> <<>>]
JsonNull == [kind |-> "null", success |-> FALSE, hasSymbols |-> FALSE, symbols |-> <<>>]
JsonData(ok, syms) == [kind |-> "object", success |-> ok, hasSymbols |-> TRUE, symbols |-> syms]
JsonNoSymbols == [kind |-> "object", success |-> TRUE, hasSymbols |-> FALSE, symbols |-> <<>>]

sValve == <<"v","a","l","v","e">>
sPump == <<"p","u","m","p">>
sSensor == <<"s","e","n","s","o","r">>
sBallValveTitle == <<"B","a","l","l"," ","V","a","l","v","e">>
sValveTitle == <<"V","a","l","v","e">>

Payloads ==
    { JsonReject, JsonNull, JsonNoSymbols,
      JsonData(FALSE, <<StrEntry(sValve)>>),
      JsonData(TRUE, <<>>),
      JsonData(TRUE, <<StrEntry(sValve), ObjEntry(sBallValveTitle)>>),
      JsonData(TRUE, <<ObjEntry(sValveTitle), StrEntry(sValve), NumEntry, ObjEntry(<<>>)>>),
      JsonData(TRUE, <<StrEntry(sPump), NullEntry>>) }

CatalogInit ==
    /\ ALL_SYMBOLS = <<>>
    /\ SYMBOL_NAMES = <<>>
    /\ SYMBOLS_LOADED = FALSE
    /\ fetchCount = 0
    /\ pc = [c \in Callers |-> "idle"]
    /\ entry = [c \in Callers |-> "loadSymbols"]
    /\ outcome = [c \in Callers |-> "none"]
    /\ askedName = None
    /\ answered = FALSE
    /\ bestSymbol = None
    /\ NoGraph
    /\ NoPureCall

\* The loadSymbols run of slot c has returned with result r
LoadReturns(c, r) ==
    /\ pc' = [pc EXCEPT ![c] = "idle"]
    /\ outcome' = [outcome EXCEPT ![c] = r]

\* A caller invokes one of the entry points.  getNodeStyle (line 215) and
\* getAvailableSymbols (line 254) call loadSymbols only when SYMBOLS_LOADED
\* is false; loadSymbols returns at once when it is true (line 171) and
\* issues the fetch otherwise (line 177).  What getNodeStyle goes on to
\* compute from the catalog is the action FindBestSymbolCall.
Call(c, e) ==
    /\ pc[c] = "idle"
    /\ entry' = [entry EXCEPT ![c] = e]
    /\ IF SYMBOLS_LOADED
       THEN /\ LoadReturns(c, "skipped")
            /\ UNCHANGED fetchCount
       ELSE /\ fetchCount < MaxFetches
            /\ fetchCount' = fetchCount + 1
            /\ pc' = [pc EXCEPT ![c] = "awaitFetch"]
            /\ UNCHANGED outcome
    /\ UNCHANGED <<catalogVars, matchVars, graphVars, pureVars>>

\* `await fetch(...)` settles: rejected, or a response with ok false or true
FetchSettles(c, r) ==
    /\ pc[c] = "awaitFetch"
    /\ IF r = "ok"
       THEN pc' = [pc EXCEPT ![c] = "awaitJson"] /\ UNCHANGED outcome
       ELSE LoadReturns(c, "failed")
    /\ UNCHANGED <<catalogVars, fetchCount, entry, matchVars, graphVars, pureVars>>

\* `await response.json()` settles with d, and the rest of loadSymbols runs
\* (pid_symbols.js:183-207).
JsonSettles(c, d) ==
    /\ pc[c] = "awaitJson"
    /\ IF d.kind = "object" /\ d.success /\ d.hasSymbols
       THEN /\ ALL_SYMBOLS' = d.symbols
            /\ IF MapThrows(d.symbols)
               THEN /\ UNCHANGED <<SYMBOL_NAMES, SYMBOLS_LOADED>>
                    /\ LoadReturns(c, "failed")
               ELSE /\ SYMBOL_NAMES' = ExtractNames(d.symbols)
                    /\ SYMBOLS_LOADED' = TRUE
                    /\ LoadReturns(c, "loaded")
       ELSE /\ UNCHANGED catalogVars
            /\ LoadReturns(c, "failed")
    /\ UNCHANGED <<fetchCount, entry, matchVars, graphVars, pureVars>>

CatalogNext ==
    \E c \in Callers :
        \/ \E e \in EntryOps : Call(c, e)
        \/ \E r \in {"reject", "notok", "ok"} : FetchSettles(c, r)
        \/ \E d \in Payloads : JsonSettles(c, d)

SpecCatalog == CatalogInit /\ [][CatalogNext]_vars

----------------------------------------------------------------------------
(* findBestSymbol over loaded catalogs: the catalog and the label are drawn *)
(* at the start, and the call is the one step of the behaviour.             *)

sBallValveA1 == <<"b","a","l","l","_","v","a","l","v","e","_","A","1">>
sBallValveSpaced == <<"B","a","l","l"," ","V","a","l","v","e">>
sBallValveCamel == <<"b","a","l","l","V","a","l","v","e">>
sPumpStation == <<"P","u","m","p"," ","S","t","a","t","i","o","n">>
sTheUnit == <<"t","h","e"," ","u","n","i","t">>
sXyz == <<"x","y","z">>
sPressureGauge == <<"p","r","e","s","s","u","r","e"," ","g","a","u","g","e">>
sGateValve7 == <<"G","a","t","e","V","a","l","v","e","-","7">>
sValve2 == <<"v","a","l","v","e"," ","2">>
sValves == <<"v","a","l","v","e","s">>
sBallValve == <<"b","a","l","l","_","v","a","l","v","e">>
sBallValves == <<"b","a","l","l","_","v","a","l","v","e","s">>
sPressureIndicator ==
    <<"p","r","e","s","s","u","r","e","_","i","n","d","i","c","a","t","o",
      "r">>
sPressureGauges == <<"p","r","e","s","s","u","r","e","_","g","a","u","g","e","s">>
sTieLabel == <<"v","_","a","b","c","d","e","f","g","h","i","j","k","l">>
sTieName == <<"v","_","a">>
sLowLabel ==
    <<"a","a","a","a","a","a","a","_","b","b","b","b","b","b","_","c","c",
      "c","c","c","c","_","d","d","d","d","d","d","_","e","e","e","e","e",
      "e","_","f","f","f","f","f","f","_","g","g","g","g","g","g">>
sLowName ==
    <<"a","a","a","a","a","a","a","_","b","b","b","b","b","x","_","c","c",
      "c","c","c","x","_","d","d","d","d","d","x","_","e","e","e","e","e",
      "x","_","f","f","f","f","f","x","_","g","g","g","g","g","x">>

\* A name one character longer than findBestSymbol accepts
sLongName == [i \in 1..(MaxNormalizedLen + 1) |-> "x"]

\* sLowLabel against sLowName: 1 token of 7 in common and 6 edits in 49
\* characters, 0.65 * (1/7) + 0.35 * (43/49).  sTieLabel against sTieName:
\* 1 token of 2 and 11 edits in 14, 0.65 * (1/2) + 0.35 * (3/14).
MatchCatalogs ==
    { <<>>,
      <<sValve, sPump, sSensor>>,
      <<sBallValve, sValve>>,
      <<sBallValves, sValve>>,
      <<sPressureIndicator, sPressureGauges>>,
      <<sTieName, sPump>>,
      <<sLowName>>,
      <<sLongName, sValve>> }

MatchLabels ==
    { <<>>, sBallValveA1, sBallValveSpaced, sBallValveCamel, sPump, sPumpStation,
      sTheUnit, sXyz, sPressureGauge, sGateValve7, sValve2, sValves, sSensor,
      sTieLabel, sLowLabel, sLongName }

\* The state after a load that returned the names as string entries (the
\* empty catalog: after a load of an empty list), or after a load that
\* failed at the fetch and left the catalog unloaded
MatchInit ==
    /\ SYMBOLS_LOADED \in BOOLEAN
    /\ SYMBOL_NAMES \in (IF SYMBOLS_LOADED THEN MatchCatalogs ELSE {<<>>})
    /\ ALL_SYMBOLS = [i \in DOMAIN SYMBOL_NAMES |-> StrEntry(SYMBOL_NAMES[i])]
    /\ fetchCount = 1
    /\ pc = [c \in Callers |-> "idle"]
    /\ entry = [c \in Callers |-> "loadSymbols"]
    /\ outcome = [c \in Callers |->
                     IF c # 1 THEN "none"
                     ELSE IF SYMBOLS_LOADED THEN "loaded" ELSE "failed"]
    /\ askedName \in {Some(name) : name \in MatchLabels}
    /\ answered = FALSE
    /\ bestSymbol = None
    /\ NoGraph
    /\ NoPureCall

\* findBestSymbol(nodeName), as getNodeStyle calls it (pid_symbols.js:223)
FindBestSymbolCall ==
    /\ ~answered
    /\ askedName # None
    /\ bestSymbol' = findBestSymbol(SYMBOL_NAMES, askedName[1])
    /\ answered' = TRUE
    /\ UNCHANGED <<catalogVars, callVars, askedName, graphVars, pureVars>>

MatchNext == FindBestSymbolCall

SpecMatch == MatchInit /\ [][MatchNext]_vars

----------------------------------------------------------------------------
(* graph_viewer.js: the data initGraphViewer works on                      *)
(*                                                                         *)
(* Node ids are one-letter strings.  A position is a record with x and y.  *)
(* The text kept in localStorage is the sequence of the entries of the     *)
(* stringified object, in key order.                                       *)

NodeIds == {"A", "B", "C"}

Point(x, y) == [x |-> x, y |-> y]

\* Where Cytoscape puts a node element that carries no position
Origin == Point(0, 0)

IndexSeq(s) == [i \in DOMAIN s |-> i]

\* JSON.stringify(positions) for the object saveNodePositions fills by
\* visiting the nodes in order (graph_viewer.js:5-9)
Stringify(order, position) ==
    [i \in DOMAIN order |-> [id |-> order[i], position |-> position[order[i]]]]

\* JSON.parse of such a text: an object from id to position, the last entry
\* of a key winning
Parse(text) ==
    [id \in {text[i].id : i \in DOMAIN text} |->
        LET last == CHOOSE i \in DOMAIN text :
                        /\ text[i].id = id
                        /\ \A j \in DOMAIN text : text[j].id = id => j <= i
        IN  text[last].position]

\* saveNodePositions writing the entry of the first node only
saveNodePositions_FirstNodeOnly(order, position) ==
    Some(Stringify(IF Len(order) = 0 THEN order ELSE <<order[1]>>, position))

\* saveNodePositions(cy): the text written to localStorage
saveNodePositions(order, position) == Some(Stringify(order, position))

\* loadNodePositions() when localStorage holds saved
loadNodePositions(saved) == IF saved # None THEN Parse(saved[1]) ELSE <<>>

GRID_SIZE == 40

\* Math.round(num / den) for integers num and den > 0: the nearest integer,
\* a half going up
MathRound(num, den) == (2 * num + den) \div (2 * den)

\* snapNodeToGrid rounding down instead of to the nearest multiple
snapNodeToGrid_Floor(pos) ==
    Point((pos.x \div GRID_SIZE) * GRID_SIZE, (pos.y \div GRID_SIZE) * GRID_SIZE)

\* The position snapNodeToGrid(node) gives a node at pos
snapNodeToGrid(pos) ==
    Point(MathRound(pos.x, GRID_SIZE) * GRID_SIZE,
          MathRound(pos.y, GRID_SIZE) * GRID_SIZE)

\* The entries of the nodes argument: a string id, an object with its
\* optional id, imageUrl and position, null, or a number
IdNode(id) ==
    [kind |-> "string", id |-> Some(id), imageUrl |-> None, position |-> None]
ObjNode(id, imageUrl, position) ==
    [kind |-> "object", id |-> id, imageUrl |-> imageUrl, position |-> position]
NullNode ==
    [kind |-> "null", id |-> None, imageUrl |-> None, position |-> None]
NumNode ==
    [kind |-> "number", id |-> None, imageUrl |-> None, position |-> None]

\* The entries of the edges argument: an array (first, second), an object
\* with any of the accepted keys, null, or a number
ArrEdge(first, second) ==
    [kind |-> "array", first |-> first, second |-> second,
     source |-> None, from |-> None, src |-> None,
     target |-> None, to |-> None, dst |-> None]
ObjEdge(source, from, src, target, to, dst) ==
    [kind |-> "object", first |-> None, second |-> None,
     source |-> source, from |-> from, src |-> src,
     target |-> target, to |-> to, dst |-> dst]
NullEdge ==
    [kind |-> "null", first |-> None, second |-> None,
     source |-> None, from |-> None, src |-> None,
     target |-> None, to |-> None, dst |-> None]
NumEdge ==
    [kind |-> "number", first |-> None, second |-> None,
     source |-> None, from |-> None, src |-> None,
     target |-> None, to |-> None, dst |-> None]

\* a || b for values that are truthy when present
Or(a, b) == IF a # None THEN a ELSE b

sSymbolsDir == <<"/","s","t","a","t","i","c","/","s","y","m","b","o","l","s","/">>
sPngExt == <<".","p","n","g">>
sCustomUrl == <<"/","c",".","p","n","g">>

\* getNodeStyle(nodeName).backgroundImage once the catalog is loaded:
\* the path of the best symbol, undefined when there is none
getNodeStyle(names, nodeName) ==
    LET best == findBestSymbol(names, nodeName)
    IN  IF best # None
        THEN Some(Concat(<<sSymbolsDir, best[1], sPngExt>>))
        ELSE None

\* The catalog the viewer runs with
GraphCatalog == << <<"b">>, sValve >>

\* What the loadSymbols call under way receives from response.json()
GraphPayloads == {JsonData(TRUE, <<StrEntry(<<"c">>)>>)}

\* The catalogs the viewer can come to run with
GraphCatalogs ==
    {GraphCatalog} \cup {ExtractNames(d.symbols) : d \in GraphPayloads}

\* The node loop (graph_viewer.js:37-82).  `nodeOrId.id` of null throws.
NodeThrowsAt(nodes, i) == nodes[i].kind = "null"
NodesThrow(nodes) == \E i \in DOMAIN nodes : NodeThrowsAt(nodes, i)

IsNodeEntry(nodeOrId) ==
    \/ nodeOrId.kind = "string"
    \/ nodeOrId.kind = "object" /\ nodeOrId.id # None

\* The node loop stops at entry i: `nodeOrId.id` throws, or the entry has
\* no imageUrl and getNodeStyle is awaited (graph_viewer.js:46, 57-60)
NodeStopsAt(nodes, i) ==
    \/ NodeThrowsAt(nodes, i)
    \/ IsNodeEntry(nodes[i]) /\ nodes[i].imageUrl = None

\* The first entry from `from` on at which the loop stops, Len(nodes) + 1
\* when it runs to its end
NextStop(nodes, from) ==
    IF \E i \in from..Len(nodes) : NodeStopsAt(nodes, i)
    THEN CHOOSE i \in from..Len(nodes) :
            /\ NodeStopsAt(nodes, i)
            /\ \A j \in from..(i - 1) : ~NodeStopsAt(nodes, j)
    ELSE Len(nodes) + 1

\* The element of a node entry; style is what the awaited getNodeStyle
\* resolved to, for an entry without imageUrl (graph_viewer.js:55-78)
NodeElement(nodeOrId, positions, style) ==
    LET nodeId == nodeOrId.id[1]
    IN  [id |-> nodeId,
         imageUrl |-> IF nodeOrId.imageUrl # None
                      THEN nodeOrId.imageUrl
                      ELSE style,
         position |-> IF nodeOrId.position # None
                      THEN nodeOrId.position
                      ELSE IF nodeId \in DOMAIN positions
                           THEN Some(positions[nodeId])
                           ELSE None]

\* The elements the loop pushes for the entries lo..hi, none of which
\* stops it: the entries with an imageUrl, the others being skipped
PushedBetween(nodes, lo, hi, positions) ==
    LET kept == SelectSeq(SubSeq(nodes, lo, hi), IsNodeEntry)
    IN  [k \in DOMAIN kept |-> NodeElement(kept[k], positions, None)]

\* The elements of the whole loop when getNodeStyle resolves each id to
\* styles[id], the catalog staying as it is during the call
NodeElements(nodes, positions, styles) ==
    LET kept == SelectSeq(nodes, IsNodeEntry)
    IN  [k \in DOMAIN kept |->
            NodeElement(kept[k], positions, styles[kept[k].id[1]])]

\* The edge loop (graph_viewer.js:85-105).  `edge.source` of null throws.
EdgesThrow(edges) == \E i \in DOMAIN edges : edges[i].kind = "null"

EdgeSource(edge) ==
    IF edge.kind = "array" THEN edge.first
    ELSE IF edge.kind = "object"
         THEN Or(edge.source, Or(edge.from, Or(edge.src, edge.first)))
         ELSE None

EdgeTarget(edge) ==
    IF edge.kind = "array" THEN edge.second
    ELSE IF edge.kind = "object"
         THEN Or(edge.target, Or(edge.to, Or(edge.dst, edge.second)))
         ELSE None

\* The element of edge idx (counted from 0) has the id `edge-${idx}`
EdgeElements(edges) ==
    LET HasEnds(i) == EdgeSource(edges[i]) # None /\ EdgeTarget(edges[i]) # None
        kept == SelectSeq(IndexSeq(edges), HasEnds)
    IN  [k \in DOMAIN kept |->
            [idx |-> kept[k] - 1,
             source |-> EdgeSource(edges[kept[k]])[1],
             target |-> EdgeTarget(edges[kept[k]])[1]]]

\* cytoscape({elements, layout}): a node per id, the first element of an id
\* being the one kept, at the element's position or at the origin
FirstOf(elems, id) ==
    CHOOSE i \in DOMAIN elems :
        elems[i].id = id /\ \A j \in DOMAIN elems : elems[j].id = id => i <= j

NodeOrder(elems) ==
    LET IsFirst(i) == FirstOf(elems, elems[i].id) = i
        kept == SelectSeq(IndexSeq(elems), IsFirst)
    IN  [k \in DOMAIN kept |-> elems[kept[k]].id]

NodePositions(elems) ==
    [id \in {elems[i].id : i \in DOMAIN elems} |->
        LET pos == elems[FirstOf(elems, id)].position
        IN  IF pos # None THEN pos[1] ELSE Origin]

\* hasSavedPositions that never finds a saved position
hasSavedPositions_Never(positions) == FALSE

\* graph_viewer.js:108
hasSavedPositions(positions) == DOMAIN positions # {}

----------------------------------------------------------------------------
(* graph_viewer.js: initGraphViewer and the handlers it registers          *)
(*                                                                         *)
(* The viewer runs with the catalog loaded, so ensureSymbolsLoaded and     *)
(* getNodeStyle return without a fetch; each of their awaits still gives   *)
(* way to the handlers of the graph on the page and to a loadSymbols call  *)
(* that was under way when the catalog was loaded.  nodeStyle tabulates    *)
(* getNodeStyle for the catalogs the viewer can run with.  The graph of    *)
(* the last completed call is the one that receives events.                *)

MaxGraphs == 2

ExplicitPoint == Point(10, 10)
\* Where a node is released: off the grid, and half way between two grid
\* lines in both directions
DragPoints == {Point(123, 77), Point(100, 60)}
\* Where the dagre layout puts the nodes: left to right, one rank apart
\* (graph_viewer.js:163-166)
LayoutPoints ==
    [id \in NodeIds |->
        IF id = "A" THEN Point(50, 50)
        ELSE IF id = "B" THEN Point(170, 50)
        ELSE Point(290, 50)]
DagrePlaced(ids) == [id \in ids |-> LayoutPoints[id]]
InitialStores ==
    {None, Some(<<[id |-> "A", position |-> Point(120, 80)]>>)}

\* The node and edge lists initGraphViewer is called with
GraphInputs ==
    { [nodes |-> <<IdNode("A"), IdNode("B")>>,
       edges |-> <<ArrEdge(Some("A"), Some("C"))>>],
      [nodes |-> <<IdNode("A"), IdNode("B")>>,
       edges |-> <<ArrEdge(Some("A"), Some("B")),
                   ObjEdge(None, Some("B"), None, None, Some("A"), None)>>],
      [nodes |-> <<IdNode("A"), ObjNode(Some("B"), None, Some(ExplicitPoint))>>,
       edges |-> <<>>],
      [nodes |-> <<IdNode("B"), IdNode("C")>>,
       edges |-> <<ObjEdge(Some("B"), None, None, Some("C"), None, None)>>],
      [nodes |-> <<IdNode("A"), ObjNode(Some("A"), None, Some(ExplicitPoint))>>,
       edges |-> <<>>],
      [nodes |-> <<IdNode("A"), NullNode>>,
       edges |-> <<>>],
      [nodes |-> <<NumNode, ObjNode(None, None, None), IdNode("A")>>,
       edges |-> <<NumEdge, ArrEdge(Some("A"), None),
                   ObjEdge(None, None, Some("A"), None, None, Some("A"))>>],
      [nodes |-> <<IdNode("A")>>,
       edges |-> <<NullEdge>>],
      [nodes |-> <<ObjNode(Some("A"), Some(sCustomUrl), None)>>,
       edges |-> <<>>],
      [nodes |-> <<>>,
       edges |-> <<>>] }

GraphInit ==
    /\ SYMBOL_NAMES = GraphCatalog
    /\ ALL_SYMBOLS = [i \in DOMAIN SYMBOL_NAMES |-> StrEntry(SYMBOL_NAMES[i])]
    /\ SYMBOLS_LOADED = TRUE
    /\ fetchCount = 2
    /\ pc = [c \in Callers |-> IF c = 2 THEN "awaitJson" ELSE "idle"]
    /\ entry = [c \in Callers |-> "loadSymbols"]
    /\ outcome = [c \in Callers |-> IF c = 1 THEN "loaded" ELSE "none"]
    /\ askedName = None
    /\ answered = FALSE
    /\ bestSymbol = None
    /\ nodeStyle = [names \in GraphCatalogs |->
                        [id \in NodeIds |-> getNodeStyle(names, <<id>>)]]
    /\ store \in InitialStores
    /\ gpc = "idle"
    /\ argContainer = FALSE
    /\ argNodes = <<>>
    /\ argEdges = <<>>
    /\ positionsMap = <<>>
    /\ returned = "none"
    /\ elements = <<>>
    /\ loopAt = 0
    /\ awaited = None
    /\ nodeElements = <<>>
    /\ edgeElements = <<>>
    /\ cyNodes = <<>>
    /\ cyPosition = <<>>
    /\ cyLayout = "none"
    /\ layoutPending = FALSE
    /\ graphCount = 0
    /\ NoPureCall
    /\ NoTap

\* initGraphViewer(containerId, nodes, edges) is called and suspends at
\* `await ensureSymbolsLoaded()` (graph_viewer.js:18-22)
InitGraphViewer(container, nodes, edges) ==
    /\ gpc = "idle"
    /\ graphCount < MaxGraphs
    /\ graphCount' = graphCount + 1
    /\ gpc' = "awaitSymbols"
    /\ argContainer' = container
    /\ argNodes' = nodes
    /\ argEdges' = edges
    /\ returned' = "pending"
    /\ UNCHANGED <<positionsMap, elements, loopAt, awaited, store, cyVars,
                   symbolVars, tapVars>>

\* The call has ended: its locals are gone
CallEnds ==
    /\ gpc' = "idle"
    /\ elements' = <<>>
    /\ loopAt' = 0
    /\ awaited' = None

\* The rest of initGraphViewer after the node loop has pushed elems
\* (graph_viewer.js:85-249).  A throw in the edge loop ends the call before
\* cytoscape() is reached.  The preset layout runs and stops inside
\* cytoscape(), before the layoutstop handler of line 221 exists; the
\* animated dagre layout stops later.
Construct(elems, positions) ==
    /\ CallEnds
    /\ IF EdgesThrow(argEdges)
       THEN /\ returned' = "threw"
            /\ UNCHANGED cyVars
       ELSE /\ nodeElements' = elems
            /\ edgeElements' = EdgeElements(argEdges)
            /\ cyNodes' = NodeOrder(elems)
            /\ cyPosition' = NodePositions(elems)
            /\ cyLayout' = IF hasSavedPositions(positions)
                           THEN "preset"
                           ELSE "dagre"
            /\ layoutPending' = ~hasSavedPositions(positions)
            /\ returned' = "graph"

\* One run of the node loop from entry `from` on, elems being pushed so
\* far (graph_viewer.js:38-81): it pushes the entries that have an imageUrl
\* and skips the invalid ones, until an entry throws, or an entry without
\* imageUrl has getNodeStyle called, which resolves from the catalog of
\* that moment (pid_symbols.js:223), and the call suspends at the await of line 60, or the loop
\* ends and the call goes on to the edges and cytoscape().
RunNodeLoop(from, elems, positions) ==
    LET stop == NextStop(argNodes, from)
        pushed == elems \o PushedBetween(argNodes, from, stop - 1, positions)
    IN  IF stop > Len(argNodes)
        THEN Construct(pushed, positions)
        ELSE IF NodeThrowsAt(argNodes, stop)
        THEN /\ CallEnds
             /\ returned' = "threw"
             /\ UNCHANGED cyVars
        ELSE /\ gpc' = "awaitStyles"
             /\ elements' = pushed
             /\ loopAt' = stop
             /\ awaited' = nodeStyle[SYMBOL_NAMES][argNodes[stop].id[1]]
             /\ UNCHANGED <<returned, cyVars>>

\* EnterBuild without the container check of lines 24-28
EnterBuild_NoContainerCheck ==
    /\ gpc = "awaitSymbols"
    /\ positionsMap' = loadNodePositions(store)
    /\ RunNodeLoop(1, <<>>, positionsMap')
    /\ UNCHANGED <<argContainer, argNodes, argEdges, graphCount, store,
                   symbolVars, tapVars>>

\* ensureSymbolsLoaded has returned: the container check, the read of the
\* store, and the node loop up to its first await (graph_viewer.js:24-60)
EnterBuild ==
    /\ gpc = "awaitSymbols"
    /\ IF ~argContainer
       THEN /\ gpc' = "idle"
            /\ returned' = "aborted"
            /\ UNCHANGED <<positionsMap, elements, loopAt, awaited, cyVars>>
       ELSE /\ positionsMap' = loadNodePositions(store)
            /\ RunNodeLoop(1, <<>>, positionsMap')
    /\ UNCHANGED <<argContainer, argNodes, argEdges, graphCount, store,
                   symbolVars, tapVars>>

\* The awaited getNodeStyle call has resolved: the element of that entry
\* is pushed and the loop runs on, to the next await or to the end of the
\* call (graph_viewer.js:60-81)
ResumeBuild ==
    /\ gpc = "awaitStyles"
    /\ RunNodeLoop(loopAt + 1,
                   Append(elements,
                          NodeElement(argNodes[loopAt], positionsMap, awaited)),
                   positionsMap)
    /\ UNCHANGED <<argContainer, argNodes, argEdges, graphCount, positionsMap,
                   store, symbolVars, tapVars>>

\* The dragfree handler (graph_viewer.js:215-218): the user releases node
\* id at pos
DragFree(id, pos) ==
    /\ cyLayout # "none"
    /\ id \in DOMAIN cyPosition
    /\ cyPosition' = [cyPosition EXCEPT ![id] = snapNodeToGrid(pos)]
    /\ store' = saveNodePositions(cyNodes, cyPosition')
    /\ UNCHANGED <<nodeElements, edgeElements, cyNodes, cyLayout,
                   layoutPending, buildVars, symbolVars, tapVars>>

\* The layout ends with no layoutstop handler to save the positions
LayoutStop_NoSave(placed) ==
    /\ layoutPending
    /\ layoutPending' = FALSE
    /\ cyPosition' = placed
    /\ UNCHANGED <<store, nodeElements, edgeElements, cyNodes, cyLayout,
                   buildVars, symbolVars, tapVars>>

\* The dagre layout ends, having given every node of the graph a position,
\* and the layoutstop handler runs (graph_viewer.js:221-223)
LayoutStop(placed) ==
    /\ layoutPending
    /\ layoutPending' = FALSE
    /\ cyPosition' = placed
    /\ store' = saveNodePositions(cyNodes, cyPosition')
    /\ UNCHANGED <<nodeElements, edgeElements, cyNodes, cyLayout, buildVars,
                   symbolVars, tapVars>>

GraphNext ==
    \/ \E container \in BOOLEAN, input \in GraphInputs :
          InitGraphViewer(container, input.nodes, input.edges)
    \/ EnterBuild
    \/ ResumeBuild
    \/ \E d \in GraphPayloads : JsonSettles(2, d)
    \/ \E id \in NodeIds, pos \in DragPoints : DragFree(id, pos)
    \/ LayoutStop(DagrePlaced(DOMAIN cyPosition))

SpecGraph == GraphInit /\ [][GraphNext]_vars

----------------------------------------------------------------------------
(* Claims about the catalog load, under SpecCatalog                         *)

InFlight(c) == pc[c] \in {"awaitFetch", "awaitJson"}

\* C1: of two loadSymbols calls of which the second starts before the
\* first has finished, only one issues the fetch: no two calls are ever
\* between their fetch and their return at the same time.
C1_OneFetchForConcurrentLoads ==
    Cardinality({c \in Callers : InFlight(c)}) <= 1

\* The step in which the loadSymbols run of slot c returns as failed
FailedReturn(c) == InFlight(c) /\ pc'[c] = "idle" /\ outcome'[c] = "failed"

\* C2: a loadSymbols call that fails leaves SYMBOLS_LOADED, ALL_SYMBOLS and
\* SYMBOL_NAMES as they were (no partial state).
C2_FailedLoadChangesNothing ==
    [][\A c \in Callers : FailedReturn(c) => catalogVars' = catalogVars]_vars

\* C3: once SYMBOLS_LOADED is true, ALL_SYMBOLS and SYMBOL_NAMES never
\* change again, whatever calls follow or are still under way.
C3_LoadedCatalogNeverChanges ==
    [][SYMBOLS_LOADED => catalogVars' = catalogVars]_vars

----------------------------------------------------------------------------
(* Claims about findBestSymbol, under SpecMatch                             *)

AskedNormalized == normalizeName(askedName[1])

\* The call ran past the guards and found neither an exact match nor a
\* synonym: the result comes from the scores.
OnScoredPath ==
    /\ answered
    /\ Len(SYMBOL_NAMES) > 0
    /\ AskedNormalized # <<>>
    /\ Len(AskedNormalized) <= MaxNormalizedLen
    /\ AskedNormalized \notin Range(SYMBOL_NAMES)
    /\ LET synonym == SynonymOf(AskedNormalized)
       IN  synonym = None \/ synonym[1] \notin Range(SYMBOL_NAMES)

\* C4 (as claimed): a label whose normalized form is a catalog name gets
\* exactly that name, whatever its length.
C4_ExactMatchAlways ==
    (answered /\ AskedNormalized \in Range(SYMBOL_NAMES))
        => bestSymbol = Some(AskedNormalized)

\* C4 (amended): a label whose normalized form is a catalog name of at most
\* 500 characters gets exactly that name, whatever the synonym map holds
\* for it and whatever the other names score.
C4_ExactMatchWithinCap ==
    (/\ answered
     /\ AskedNormalized \in Range(SYMBOL_NAMES)
     /\ Len(AskedNormalized) <= MaxNormalizedLen)
        => bestSymbol = Some(AskedNormalized)

\* An exact match was returned although the synonym map sends the
\* normalized label to another name of the catalog.
C4_Witness ==
    /\ answered
    /\ AskedNormalized \in Range(SYMBOL_NAMES)
    /\ LET synonym == SynonymOf(AskedNormalized)
       IN  /\ synonym # None
           /\ synonym[1] # AskedNormalized
           /\ synonym[1] \in Range(SYMBOL_NAMES)
    /\ bestSymbol = Some(AskedNormalized)

\* C5 (as claimed): a label whose normalized form is a key of SYNONYM_MAP
\* with its target in the catalog gets that target.
C5_SynonymAlways ==
    (/\ answered
     /\ SynonymOf(AskedNormalized) # None
     /\ SynonymOf(AskedNormalized)[1] \in Range(SYMBOL_NAMES))
        => bestSymbol = SynonymOf(AskedNormalized)

\* C5 (amended): a label whose normalized form is a key of SYNONYM_MAP and
\* not itself a catalog name, with its target in the catalog, gets that
\* target, even when another name of the catalog scores higher.
C5_SynonymUnlessExact ==
    (/\ answered
     /\ AskedNormalized \notin Range(SYMBOL_NAMES)
     /\ SynonymOf(AskedNormalized) # None
     /\ SynonymOf(AskedNormalized)[1] \in Range(SYMBOL_NAMES))
        => bestSymbol = SynonymOf(AskedNormalized)

\* The synonym target was returned although another name of the catalog
\* has a strictly higher similarity to the normalized label.
C5_Witness ==
    /\ answered
    /\ AskedNormalized \notin Range(SYMBOL_NAMES)
    /\ SynonymOf(AskedNormalized) # None
    /\ bestSymbol = SynonymOf(AskedNormalized)
    /\ \E i \in DOMAIN SYMBOL_NAMES :
          ~BigGE(calculateSimilarity(AskedNormalized, bestSymbol[1]),
                 calculateSimilarity(AskedNormalized, SYMBOL_NAMES[i]))

\* C6: with the catalog ["valve", "pump", "sensor"], findBestSymbol of
\* "ball_valve_A1" is "valve".
C6_BallValveA1IsValve ==
    (/\ answered
     /\ SYMBOL_NAMES = <<sValve, sPump, sSensor>>
     /\ askedName = Some(sBallValveA1))
        => bestSymbol = Some(sValve)

\* The blended score 0.65 * tokenScore + 0.35 * editScore of the claim, as
\* an exact fraction: BlendNum / (20 * tokens * maxLen), with tokenScore
\* hits / tokens and editScore (maxLen - distance) / maxLen.  On the scored
\* path the normalized label has a token and a character.
BlendNum(str1, str2) ==
    LET maxLen == Max(Len(str1), Len(str2))
        t1 == tokenize(str1)
    IN  13 * TokenHits(t1, tokenize(str2)) * maxLen
        + 7 * (maxLen - levenshteinDistance(str1, str2)) * Len(t1)

BlendAtLeastThreshold(str1, str2) ==
    BlendNum(str1, str2) >= 8 * Len(tokenize(str1)) * Max(Len(str1), Len(str2))

\* The blend of str1 with a is at least its blend with b
BlendAtLeast(str1, a, b) ==
    BlendNum(str1, a) * Max(Len(str1), Len(b))
        >= BlendNum(str1, b) * Max(Len(str1), Len(a))

\* C7: on the scored path the result is a name of the highest blended
\* score when that score is at least 0.4 (0.4 itself included), and
\* null when it is below.
C7_ThresholdOnBlend ==
    OnScoredPath =>
        IF \E i \in DOMAIN SYMBOL_NAMES :
               BlendAtLeastThreshold(AskedNormalized, SYMBOL_NAMES[i])
        THEN /\ bestSymbol # None
             /\ \A i \in DOMAIN SYMBOL_NAMES :
                    BlendAtLeast(AskedNormalized, bestSymbol[1], SYMBOL_NAMES[i])
        ELSE bestSymbol = None

----------------------------------------------------------------------------
(* Claims about initGraphViewer and the position store, under SpecGraph     *)

ElementIds == {nodeElements[i].id : i \in DOMAIN nodeElements}

\* C8: the elements initGraphViewer builds hold no edge whose source or
\* target is not the id of a node it was given (nodes ["A","B"] with edges
\* [["A","C"]] give no edge element).
C8_NoDanglingEdgeElement ==
    \A i \in DOMAIN edgeElements :
        /\ edgeElements[i].source \in ElementIds
        /\ edgeElements[i].target \in ElementIds

\* The ids that have an entry in the store text
StoredIds(text) == DOMAIN loadNodePositions(text)

\* C9 (as claimed): the store only gains or overwrites entries: an id with
\* a stored entry still has one after every step.
C9_StoreNeverLosesEntry ==
    [][StoredIds(store) \subseteq StoredIds(store')]_vars

\* C9 (amended): the store is only ever replaced as a whole, by a
\* drag-release or a layout completion of the current graph and by nothing
\* else: what is written then holds one entry, with both x and y, for each
\* node of that graph and for no other id, so that a node of that graph
\* never loses its entry.
C9_StoreReplacedByGraphMap ==
    [][store' # store =>
        /\ cyLayout # "none"
        /\ gpc' = gpc
        /\ cyNodes' = cyNodes
        /\ store' # None
        /\ Len(store'[1]) = Len(cyNodes)
        /\ StoredIds(store') = DOMAIN cyPosition'
        /\ \A id \in StoredIds(store') :
              /\ DOMAIN loadNodePositions(store')[id] = {"x", "y"}
              /\ loadNodePositions(store')[id] = cyPosition'[id]]_vars

\* After two constructions the store holds the map of a graph of several
\* nodes that has no node "A", the id stored at the start.
C9_Witness ==
    /\ graphCount = MaxGraphs
    /\ cyLayout # "none"
    /\ store # None
    /\ positionsMap # <<>>
    /\ "A" \in DOMAIN positionsMap
    /\ StoredIds(store) = DOMAIN cyPosition
    /\ "A" \notin StoredIds(store)
    /\ Cardinality(StoredIds(store)) > 1

\* The step in which cytoscape() builds the graph
Constructs == returned # "graph" /\ returned' = "graph"

\* The step in which the automatic layout of the graph ends
LayoutEnds == layoutPending /\ ~layoutPending' /\ gpc' = gpc

\* C10: a node given an explicit position is placed there; a node without
\* one is placed at its persisted position when it has one; the automatic
\* layout assigns the position of a node only when the node has neither.
C10_LayoutPlacesOnlyUnplacedNodes ==
    [][/\ Constructs =>
            \A i \in DOMAIN argNodes' :
                (/\ IsNodeEntry(argNodes'[i])
                 /\ \A j \in 1..(i - 1) : argNodes'[j].id # argNodes'[i].id)
                => LET id == argNodes'[i].id[1]
                   IN  IF argNodes'[i].position # None
                       THEN cyPosition'[id] = argNodes'[i].position[1]
                       ELSE id \in DOMAIN positionsMap'
                                => cyPosition'[id] = positionsMap'[id]
       /\ LayoutEnds =>
            \A id \in ElementIds :
                nodeElements[FirstOf(nodeElements, id)].position # None
                    => cyPosition'[id] = cyPosition[id]]_vars

\* C11: when the store read by initGraphViewer holds at least one position,
\* the graph is constructed with the preset layout, no automatic layout
\* ever runs on it, and every node with a persisted position and no
\* explicit one is at exactly its persisted coordinates; when the store
\* holds none, the dagre layout is used.
C11_PresetIffStoredPosition ==
    [][/\ (gpc = "awaitSymbols" /\ gpc' # gpc /\ argContainer)
            => positionsMap' = loadNodePositions(store)
       /\ Constructs =>
            IF DOMAIN positionsMap' # {}
            THEN /\ cyLayout' = "preset"
                 /\ ~layoutPending'
                 /\ \A i \in DOMAIN nodeElements' :
                       LET id == nodeElements'[i].id
                       IN  (/\ FirstOf(nodeElements', id) = i
                            /\ SelectSeq(argNodes', IsNodeEntry)[i].position = None
                            /\ id \in DOMAIN positionsMap')
                               => cyPosition'[id] = positionsMap'[id]
            ELSE cyLayout' = "dagre" /\ layoutPending'
       /\ LayoutEnds => cyLayout = "dagre"]_vars

\* A graph constructed with the preset layout from a store that holds a
\* position for "A" and none for "B": A is where the store had it.
C11_Witness ==
    /\ returned = "graph"
    /\ cyLayout = "preset"
    /\ ~layoutPending
    /\ DOMAIN positionsMap = {"A"}
    /\ DOMAIN cyPosition = {"A", "B"}
    /\ cyPosition["A"] = positionsMap["A"]
    /\ argNodes # <<>>
    /\ argNodes[1] = IdNode("A")

\* The multiple of GRID_SIZE nearest to v, the upper one when v is half way
NearestMultiple(v) ==
    CHOOSE r \in {GRID_SIZE * k : k \in -10..10} :
        2 * (r - v) > -GRID_SIZE /\ 2 * (r - v) <= GRID_SIZE

\* C12: releasing a node at (x, y) persists it at the nearest grid point
\* (40 * round(x / 40), 40 * round(y / 40)), and a graph constructed from a
\* store that holds a position for an id given as a plain id places that
\* node at exactly the persisted coordinates, with no layout to move it.
C12_DragReleaseRoundTrip ==
    [][/\ \A id \in NodeIds, pos \in DragPoints :
            DragFree(id, pos) =>
                /\ id \in StoredIds(store')
                /\ loadNodePositions(store')[id]
                       = Point(NearestMultiple(pos.x), NearestMultiple(pos.y))
       /\ Constructs =>
            \A i \in DOMAIN argNodes' :
                LET id == argNodes'[i].id
                IN  (/\ argNodes'[i].kind = "string"
                     /\ \A j \in 1..(i - 1) : argNodes'[j].id # id
                     /\ id[1] \in DOMAIN positionsMap')
                        => /\ cyPosition'[id[1]] = positionsMap'[id[1]]
                           /\ ~layoutPending']_vars

\* Node "B" was released at (123, 77) in a first graph, which stored it at
\* (120, 80); a second graph, given "B" as a plain id, has it there, and
\* nothing has been written by the second graph yet.
C12_Witness ==
    /\ graphCount = MaxGraphs
    /\ returned = "graph"
    /\ argNodes # <<>>
    /\ argNodes[1] = IdNode("B")
    /\ "B" \in DOMAIN positionsMap
    /\ "B" \in DOMAIN cyPosition
    /\ positionsMap["B"] = Point(120, 80)
    /\ cyPosition["B"] = Point(120, 80)
    /\ store # None
    /\ StoredIds(store) # DOMAIN cyPosition

\* The step is a drag-release of some node of the graph
DragReleases == \E id \in NodeIds, pos \in DragPoints : DragFree(id, pos)

\* The store holds exactly the map from the node ids of the graph to their
\* positions
StoreIsGraphMap(text, order, position) ==
    /\ text # None
    /\ Len(text[1]) = Len(order)
    /\ loadNodePositions(text) = position

\* C13 (as claimed): after every drag-release and after every layout
\* completion of a constructed graph, that of the preset layout it was
\* constructed with included, the store holds exactly the map of the graph.
C13_EveryLayoutCompletionPersisted ==
    [][(\/ DragReleases
        \/ LayoutEnds
        \/ Constructs /\ cyLayout' = "preset")
            => StoreIsGraphMap(store', cyNodes', cyPosition')]_vars

\* C13 (amended): after every drag-release and after every completion of
\* the automatic (dagre) layout of a constructed graph, the store holds
\* exactly the map from each node id of that graph to its current position,
\* whatever it held before.
C13_DragAndAutoLayoutPersisted ==
    [][(DragReleases \/ LayoutEnds)
            => StoreIsGraphMap(store', cyNodes', cyPosition')]_vars

\* The automatic layout of a graph of two nodes has ended and the store
\* holds the positions it gave them.
C13_Witness ==
    /\ returned = "graph"
    /\ cyLayout = "dagre"
    /\ ~layoutPending
    /\ Len(cyNodes) = 2
    /\ \A id \in DOMAIN cyPosition : cyPosition[id] = LayoutPoints[id]
    /\ StoreIsGraphMap(store, cyNodes, cyPosition)

\* The ids of the well-formed entries of a nodes argument
WellFormedIds(nodes) ==
    {nodes[i].id[1] : i \in {j \in DOMAIN nodes : IsNodeEntry(nodes[j])}}

\* The entries of an edges argument that have a source and a target
ResolvableEdges(edges) ==
    {i \in DOMAIN edges :
        /\ edges[i].kind \in {"array", "object"}
        /\ EdgeSource(edges[i]) # None
        /\ EdgeTarget(edges[i]) # None}

\* C14: malformed entries are never fatal: with the container present,
\* every initGraphViewer call returns a graph of all the well-formed
\* entries, skipping null, numbers and objects without id among the nodes,
\* and null, non-objects and entries without source or target among the
\* edges.
C14_MalformedEntriesSkipped ==
    [][(gpc # "idle" /\ gpc' = "idle" /\ argContainer) =>
          /\ returned' = "graph"
          /\ {nodeElements'[i].id : i \in DOMAIN nodeElements'}
                 = WellFormedIds(argNodes)
          /\ {edgeElements'[i].idx + 1 : i \in DOMAIN edgeElements'}
                 = ResolvableEdges(argEdges)]_vars

\* C15: the node elements initGraphViewer builds hold at most one element
\* per id, also when the nodes argument repeats an id.
C15_OneElementPerId ==
    \A i, j \in DOMAIN nodeElements :
        nodeElements[i].id = nodeElements[j].id => i = j

----------------------------------------------------------------------------
(* Further claims about the catalog, under SpecCatalog                      *)

\* C16: after a successful load SYMBOL_NAMES holds no name twice, whatever
\* payload was returned.
C16_NoDuplicateNames ==
    SYMBOLS_LOADED =>
        \A i, j \in DOMAIN SYMBOL_NAMES :
            SYMBOL_NAMES[i] = SYMBOL_NAMES[j] => i = j

----------------------------------------------------------------------------
(* normalizeName called on its own result                                  *)

MaxLabelLen == 3
MaxPasses == 2

LabelChars == {"a", "n", "A", "o", "f", " ", "_", "7"}

\* The labels normalizeName is called with: every string of at most
\* MaxLabelLen of these characters, and the labels of the matcher
NormalizeLabels ==
    UNION {[1..m -> LabelChars] : m \in 0..MaxLabelLen} \cup MatchLabels

NormalizeInit ==
    /\ ALL_SYMBOLS = <<>>
    /\ SYMBOL_NAMES = <<>>
    /\ SYMBOLS_LOADED = FALSE
    /\ fetchCount = 0
    /\ pc = [c \in Callers |-> "idle"]
    /\ entry = [c \in Callers |-> "loadSymbols"]
    /\ outcome = [c \in Callers |-> "none"]
    /\ askedName = None
    /\ answered = FALSE
    /\ bestSymbol = None
    /\ NoGraph
    /\ normArg \in NormalizeLabels
    /\ normResults = <<>>
    /\ levArg1 = <<>>
    /\ levArg2 = <<>>
    /\ levResult = None

\* normalizeName(name), name being the label at first and then the result
\* of the call before
NormalizeNameCall ==
    /\ Len(normResults) < MaxPasses
    /\ LET name == IF normResults = <<>>
                   THEN normArg
                   ELSE normResults[Len(normResults)]
       IN  normResults' = Append(normResults, normalizeName(name))
    /\ UNCHANGED <<catalogVars, callVars, matchVars, graphVars, normArg,
                   levArg1, levArg2, levResult>>

NormalizeNext == NormalizeNameCall

SpecNormalize == NormalizeInit /\ [][NormalizeNext]_vars

\* C17: normalizeName is idempotent: called on its own result it returns
\* that result.
C17_NormalizeNameIdempotent ==
    \A k \in 2..Len(normResults) : normResults[k] = normResults[k - 1]

\* "Pump Station" was normalized twice: the first call lower-cased it and
\* dropped the stopword, the second changed nothing.
C17_Witness ==
    /\ Len(normResults) = MaxPasses
    /\ normArg = sPumpStation
    /\ normResults[1] = sPump
    /\ normResults[2] = sPump

----------------------------------------------------------------------------
(* levenshteinDistance called on its own                                   *)

MaxLevLen == 3

sKitten == <<"k","i","t","t","e","n">>
sSitting == <<"s","i","t","t","i","n","g">>
sAtCap == [i \in 1..MAX_LEN |-> "x"]
sOverCap == [i \in 1..(MAX_LEN + 1) |-> "x"]

\* The pairs levenshteinDistance is called with: every pair of strings of
\* at most MaxLevLen letters a and b, and pairs with strings of MAX_LEN
\* characters and of one more
LevPairs ==
    LET short == UNION {[1..m -> {"a", "b"}] : m \in 0..MaxLevLen}
    IN  (short \X short)
        \cup { <<sKitten, sSitting>>, <<sSitting, sKitten>>,
               <<sAtCap, sAtCap>>, <<sAtCap, sKitten>>, <<sKitten, sAtCap>>,
               <<sOverCap, sOverCap>>, <<sOverCap, sKitten>>,
               <<sKitten, sOverCap>>, <<sOverCap, sAtCap>> }

LevInit ==
    /\ ALL_SYMBOLS = <<>>
    /\ SYMBOL_NAMES = <<>>
    /\ SYMBOLS_LOADED = FALSE
    /\ fetchCount = 0
    /\ pc = [c \in Callers |-> "idle"]
    /\ entry = [c \in Callers |-> "loadSymbols"]
    /\ outcome = [c \in Callers |-> "none"]
    /\ askedName = None
    /\ answered = FALSE
    /\ bestSymbol = None
    /\ NoGraph
    /\ normArg = <<>>
    /\ normResults = <<>>
    /\ \E pair \in LevPairs : levArg1 = pair[1] /\ levArg2 = pair[2]
    /\ levResult = None

\* levenshteinDistance(str1, str2)
LevenshteinCall ==
    /\ levResult = None
    /\ levResult' = Some(levenshteinDistance(levArg1, levArg2))
    /\ UNCHANGED <<catalogVars, callVars, matchVars, graphVars, normArg,
                   normResults, levArg1, levArg2>>

LevNext == LevenshteinCall

SpecLev == LevInit /\ [][LevNext]_vars

\* C18 (as claimed): levenshteinDistance(x, x) is 0 for every string x, of
\* any length.
C18_SelfDistanceZero ==
    (levResult # None /\ levArg1 = levArg2) => levResult[1] = 0

\* C18 (amended): levenshteinDistance(x, x) is 0 for every string x of at
\* most 1000 characters, and the length of x for a longer x.
C18_SelfDistanceZeroWithinCap ==
    (levResult # None /\ levArg1 = levArg2) =>
        levResult[1] = IF Len(levArg1) <= MAX_LEN THEN 0 ELSE Len(levArg1)

\* The distance of a string of exactly 1000 characters to itself was
\* computed.
C18_Witness ==
    /\ levResult = Some(0)
    /\ levArg1 = levArg2
    /\ Len(levArg1) = MAX_LEN

----------------------------------------------------------------------------
(* graph_viewer.js: the tap handlers of a constructed graph                *)

MaxTaps == 2

\* What window.onGraphNodeClick and window.onGraphBlankClick can be: not a
\* function, a function that returns, a function that throws
HandlerKinds == {"undefined", "returns", "throws"}

\* The inputs of GraphInputs that initGraphViewer builds a graph from
BuiltInputs ==
    {input \in GraphInputs :
        ~NodesThrow(input.nodes) /\ ~EdgesThrow(input.edges)}

\* The page after initGraphViewer has returned a graph, before any event
TapInit ==
    /\ SYMBOL_NAMES = GraphCatalog
    /\ ALL_SYMBOLS = [i \in DOMAIN SYMBOL_NAMES |-> StrEntry(SYMBOL_NAMES[i])]
    /\ SYMBOLS_LOADED = TRUE
    /\ fetchCount = 1
    /\ pc = [c \in Callers |-> "idle"]
    /\ entry = [c \in Callers |-> "loadSymbols"]
    /\ outcome = [c \in Callers |-> IF c = 1 THEN "loaded" ELSE "none"]
    /\ askedName = None
    /\ answered = FALSE
    /\ bestSymbol = None
    /\ nodeStyle = [names \in GraphCatalogs |->
                        [id \in NodeIds |-> getNodeStyle(names, <<id>>)]]
    /\ store \in InitialStores
    /\ gpc = "idle"
    /\ argContainer = TRUE
    /\ \E input \in BuiltInputs :
          /\ argNodes = input.nodes
          /\ argEdges = input.edges
    /\ positionsMap = loadNodePositions(store)
    /\ returned = "graph"
    /\ elements = <<>>
    /\ loopAt = 0
    /\ awaited = None
    /\ nodeElements = NodeElements(argNodes, positionsMap,
                                   nodeStyle[SYMBOL_NAMES])
    /\ edgeElements = EdgeElements(argEdges)
    /\ cyNodes = NodeOrder(nodeElements)
    /\ cyPosition = NodePositions(nodeElements)
    /\ cyLayout = IF hasSavedPositions(positionsMap) THEN "preset" ELSE "dagre"
    /\ layoutPending = ~hasSavedPositions(positionsMap)
    /\ graphCount = 1
    /\ NoPureCall
    /\ onGraphNodeClick \in HandlerKinds
    /\ onGraphBlankClick \in HandlerKinds
    /\ tapCount = 0
    /\ tapTarget = None
    /\ nodeClickCalls = <<>>
    /\ blankClickCalls = 0
    /\ tapEscaped = FALSE

\* A tap on node id with the background handler calling
\* onGraphBlankClick whatever the target of the event
TapNode_NoTargetCheck(id) ==
    /\ cyLayout # "none"
    /\ tapCount < MaxTaps
    /\ id \in DOMAIN cyPosition
    /\ tapCount' = tapCount + 1
    /\ tapTarget' = Some(id)
    /\ nodeClickCalls' = IF onGraphNodeClick # "undefined" THEN <<id>> ELSE <<>>
    /\ blankClickCalls' = IF onGraphBlankClick # "undefined" THEN 1 ELSE 0
    /\ tapEscaped' = FALSE
    /\ UNCHANGED <<onGraphNodeClick, onGraphBlankClick, nodeStyle, store,
                   buildVars, cyVars, catalogVars, callVars, matchVars,
                   pureVars>>

\* A tap on node id: the handler of line 226 calls onGraphNodeClick(id)
\* if it is a function and catches what it throws; the handler of line 238
\* runs too and does nothing, the target not being cy
TapNode(id) ==
    /\ cyLayout # "none"
    /\ tapCount < MaxTaps
    /\ id \in DOMAIN cyPosition
    /\ tapCount' = tapCount + 1
    /\ tapTarget' = Some(id)
    /\ nodeClickCalls' = IF onGraphNodeClick # "undefined" THEN <<id>> ELSE <<>>
    /\ blankClickCalls' = 0
    /\ tapEscaped' = FALSE
    /\ UNCHANGED <<onGraphNodeClick, onGraphBlankClick, nodeStyle, store,
                   buildVars, cyVars, catalogVars, callVars, matchVars,
                   pureVars>>

\* A tap on the empty canvas: the handler of line 226 is for nodes and
\* does not run; the handler of line 238 calls onGraphBlankClick() if it is
\* a function and catches what it throws
TapBlank ==
    /\ cyLayout # "none"
    /\ tapCount < MaxTaps
    /\ tapCount' = tapCount + 1
    /\ tapTarget' = Some("cy")
    /\ nodeClickCalls' = <<>>
    /\ blankClickCalls' = IF onGraphBlankClick # "undefined" THEN 1 ELSE 0
    /\ tapEscaped' = FALSE
    /\ UNCHANGED <<onGraphNodeClick, onGraphBlankClick, nodeStyle, store,
                   buildVars, cyVars, catalogVars, callVars, matchVars,
                   pureVars>>

TapNext ==
    \/ \E id \in NodeIds : TapNode(id)
    \/ TapBlank
    \/ \E id \in NodeIds, pos \in DragPoints : DragFree(id, pos)
    \/ LayoutStop(DagrePlaced(DOMAIN cyPosition))

SpecTap == TapInit /\ [][TapNext]_vars

\* C19: a tap on a node calls onGraphNodeClick once, with the id of the
\* node, and not onGraphBlankClick; a tap on the empty canvas calls
\* onGraphBlankClick and not onGraphNodeClick; a handler that is not defined
\* is not called; an exception of a handler never leaves the dispatch; and
\* a tap leaves the node positions and the store as they were.
C19_TapCallbacksContained ==
    [][tapCount' # tapCount =>
          /\ tapTarget' # None
          /\ ~tapEscaped'
          /\ cyPosition' = cyPosition
          /\ store' = store
          /\ IF tapTarget'[1] \in NodeIds
             THEN /\ blankClickCalls' = 0
                  /\ nodeClickCalls' =
                        IF onGraphNodeClick \in {"returns", "throws"}
                        THEN <<tapTarget'[1]>>
                        ELSE <<>>
             ELSE /\ nodeClickCalls' = <<>>
                  /\ blankClickCalls' =
                        IF onGraphBlankClick \in {"returns", "throws"}
                        THEN 1
                        ELSE 0]_vars

\* Node "B" was tapped with both handlers defined and onGraphNodeClick
\* throwing: it was called with "B", the other handler was not, and the
\* exception was caught.
C19_Witness ==
    /\ tapTarget = Some("B")
    /\ onGraphNodeClick = "throws"
    /\ onGraphBlankClick = "returns"
    /\ nodeClickCalls = <<"B">>
    /\ blankClickCalls = 0
    /\ ~tapEscaped

----------------------------------------------------------------------------
(* graph_viewer.js: grid snap of the positions a drag-release persists     *)

\* v is a multiple of the grid size
OnGrid(v) == v % GRID_SIZE = 0

\* C20 (as claimed): every entry a drag-release writes to the store has x
\* and y that are multiples of 40.
C20_DragReleasePersistsOnlyGridPoints ==
    [][DragReleases =>
          /\ store' # None
          /\ \A i \in DOMAIN store'[1] :
                /\ OnGrid(store'[1][i].position.x)
                /\ OnGrid(store'[1][i].position.y)]_vars

----------------------------------------------------------------------------
(* levenshteinDistance against the edit distance                           *)

\* The letters of the short strings of LevPairs
LevAlphabet == {"a", "b"}

\* The strings one insertion, deletion or substitution away from s
OneEdit(s) ==
    LET n == Len(s)
    IN  {SubSeq(s, 1, i) \o <<c>> \o SubSeq(s, i + 1, n) :
            i \in 0..n, c \in LevAlphabet}
        \cup {SubSeq(s, 1, i - 1) \o SubSeq(s, i + 1, n) : i \in 1..n}
        \cup {[s EXCEPT ![i] = c] : i \in 1..n, c \in LevAlphabet}

\* The strings at most k single-character edits away from s
RECURSIVE EditBall(_, _)
EditBall(s, k) ==
    IF k = 0 THEN {s}
    ELSE LET inner == EditBall(s, k - 1)
         IN  inner \cup UNION {OneEdit(t) : t \in inner}

\* The least number of single-character edits that turn a into b
EditDistance(a, b) ==
    CHOOSE k \in 0..Max(Len(a), Len(b)) :
        /\ b \in EditBall(a, k)
        /\ \A m \in 0..(k - 1) : b \notin EditBall(a, m)

\* The characters of a string
CharsOf(s) == {s[i] : i \in DOMAIN s}

IsShortPair(a, b) ==
    /\ Len(a) <= MaxLevLen /\ CharsOf(a) \subseteq LevAlphabet
    /\ Len(b) <= MaxLevLen /\ CharsOf(b) \subseteq LevAlphabet

\* C21: for strings of at most 1000 characters levenshteinDistance is the
\* edit distance (the least number of single-character insertions,
\* deletions and substitutions; 0 for equal strings and the greater length
\* for strings with no character in common) and is symmetric, 3 for
\* "kitten" and "sitting"; with an input of more than 1000 characters it is
\* the greater of the two lengths.
C21_LevenshteinIsEditDistance ==
    levResult # None =>
        IF Len(levArg1) > MAX_LEN \/ Len(levArg2) > MAX_LEN
        THEN levResult[1] = Max(Len(levArg1), Len(levArg2))
        ELSE /\ levResult[1] = levenshteinDistance(levArg2, levArg1)
             /\ IsShortPair(levArg1, levArg2)
                    => levResult[1] = EditDistance(levArg1, levArg2)
             /\ levArg1 = levArg2 => levResult[1] = 0
             /\ CharsOf(levArg1) \cap CharsOf(levArg2) = {}
                    => levResult[1] = Max(Len(levArg1), Len(levArg2))
             /\ {levArg1, levArg2} = {sKitten, sSitting} => levResult[1] = 3

\* The distance of "kitten" to "sitting" was computed and is 3.
C21_Witness ==
    /\ levArg1 = sKitten
    /\ levArg2 = sSitting
    /\ levResult = Some(3)

----------------------------------------------------------------------------
(* graph_viewer.js: initGraphViewer without its container                  *)

\* The step of a call that finds no container element (graph_viewer.js:25)
FindsNoContainer == gpc = "awaitSymbols" /\ ~argContainer /\ gpc' # gpc

\* C22: a call of initGraphViewer whose container element is absent aborts
\* and returns no graph, does not read the store into its position map and
\* does not write it, and builds no graph to put handlers on: the graph of
\* an earlier call, if any, is left as it was, and while the only call made
\* had no container there is no graph and the store never changes.
C22_MissingContainerAborts ==
    [][/\ FindsNoContainer =>
            /\ returned' = "aborted"
            /\ gpc' = "idle"
            /\ store' = store
            /\ positionsMap' = positionsMap
            /\ UNCHANGED cyVars
            /\ UNCHANGED tapVars
       /\ (graphCount' = 1 /\ ~argContainer') =>
            /\ store' = store
            /\ cyLayout' = "none"
            /\ ~layoutPending'
            /\ returned' \in {"pending", "aborted"}]_vars

\* The first call, made with positions in the store, nodes to draw and no
\* container, has aborted: nothing was read and there is no graph.
C22_Witness ==
    /\ returned = "aborted"
    /\ graphCount = 1
    /\ ~argContainer
    /\ argNodes # <<>>
    /\ store # None
    /\ positionsMap = <<>>
    /\ cyLayout = "none"

----------------------------------------------------------------------------
(* findBestSymbol: what it can return                                      *)

\* C23: findBestSymbol returns null or a name of the current SYMBOL_NAMES,
\* and null when the catalog is empty or not loaded, when the normalized
\* label is empty, and when the normalized label has more than 500
\* characters.
C23_ResultIsNoneOrCatalogName ==
    answered =>
        /\ bestSymbol = None \/ bestSymbol[1] \in Range(SYMBOL_NAMES)
        /\ (\/ ~SYMBOLS_LOADED
            \/ SYMBOL_NAMES = <<>>
            \/ AskedNormalized = <<>>
            \/ Len(AskedNormalized) > MaxNormalizedLen) => bestSymbol = None

\* A label that is neither a catalog name nor a synonym of one was answered
\* from the scores with a name of the loaded catalog.
C23_Witness ==
    /\ OnScoredPath
    /\ SYMBOLS_LOADED
    /\ bestSymbol # None
    /\ bestSymbol[1] \in Range(SYMBOL_NAMES)
    /\ bestSymbol[1] # AskedNormalized

====
